---- MODULE Spec2Model ----
(***************************************************************************)
(* Model of the local-transcriber React application:                       *)
(*   src/src/recognizer.tsx  - Recognizer component: engine load/swap,     *)
(*                             transcript store, extractive summarizer     *)
(*   src/src/microphone.tsx  - Microphone component: device acquisition    *)
(*                             and routing of frames (mute gate)           *)
(*                                                                         *)
(* Identities.  Every successful loadModel creates model j, and recognizer *)
(* j on it (recognizer.tsx l.99-102).  The run of startRecognitionStream   *)
(* for recognizer j creates, when it reaches these lines, the MediaStream  *)
(* j (l.63), the MicrophoneStream j (l.73) and the AudioStreamer j (l.93). *)
(* 0 stands for undefined / null.  Destination 0 of a pipe is audioBucket. *)
(*                                                                         *)
(* React.  A handler runs to completion; the state variables hold the      *)
(* committed state.  Passive effects (useEffect) of a commit run later, in *)
(* one flush, in declaration order; audio frames and continuations that    *)
(* touch only refs may arrive in between.  React flushes the pending       *)
(* effects before the next render, so a handler that sets state is taken   *)
(* only when no effect is pending.                                         *)
(*                                                                         *)
(* Specifications.  Spec: engine load/swap and frame routing, loadModel    *)
(* callable again at any time.  SpecT: the transcript store with loadModel *)
(* called by the mount effect only.  SpecS: the summarizer on every        *)
(* transcript of UttInputs.                                                *)
(***************************************************************************)
EXTENDS Integers, Sequences, FiniteSets, TLC

\* ---------------------------------------------------------------- bounds
MaxModels == 3

Ids == 1..MaxModels
Dests == 0..MaxModels
audioBucket == 0

\* error messages of microphone.tsx
NoError == "null"
ErrAccess == "Error accessing microphone. Please check browser permissions."
ErrStart == "Error starting microphone"

VARIABLES
  \* Recognizer component (recognizer.tsx l.74-90)
  loadedModel,      \* useState loadedModel: 0 or the model id
  recognizer,       \* useState recognizer: 0 or the recognizer id
  loading,          \* useState loading
  ready,            \* useState ready
  modelState,       \* per model: "none" | "alive" | "terminated"
  pendingLoads,     \* loadModel calls suspended on await createModel
  utterances,       \* useState utterances
  partial,          \* useState partial
  emitted,          \* history: payloads of the 'result' events, in order
  lastEvent,        \* history: the handler invocation that ran last
  summary,          \* useState summary
  summarizing,      \* useState summarizing
  textClassifier,   \* useState textClassifier: TRUE when a classifier is set
  llmLoading,       \* useState llmLoading
  calls,            \* generateSummary invocations: suspension point and locals
  lastDone,         \* history: the generateSummary invocation that ended last
  \* Microphone component (microphone.tsx l.47-53)
  muted,            \* useState muted
  error,            \* useState error
  micStreamRef,     \* useRef: 0 or the MicrophoneStream id
  audioStreamerRef, \* useRef: 0 or the AudioStreamer id
  mediaStreamRef,   \* useRef: 0 or the MediaStream id
  mic,              \* per MicrophoneStream: "none"|"unattached"|"live"|"destroyed"
  media,            \* per MediaStream: "none" | "live" | "stopped"
  pipes,            \* per MicrophoneStream: destination -> number of pipes
  gumPending,       \* runs of startRecognitionStream suspended on getUserMedia
  ranFor,           \* history: recognizers whose run reached l.93
  effRec,           \* effect [recognizer, startRecognitionStream] pending
  effLoading,       \* effect [loading] pending
  effMuted,         \* effect [muted] pending
  lastFrame         \* history: the last frame delivery

recVars == <<loadedModel, recognizer, loading, ready, modelState, pendingLoads>>
txVars == <<utterances, partial, emitted, lastEvent>>
sumVars == <<summary, summarizing, textClassifier, llmLoading, calls, lastDone>>
refVars == <<micStreamRef, audioStreamerRef, mediaStreamRef, mic, media, pipes,
             gumPending, ranFor>>
micVars == <<muted, error, effRec, effLoading, effMuted>>

NoFrame == [stream |-> 0, dests |-> {}, terminated |-> {}, muted |-> TRUE]

NoPipes == [d \in Dests |-> 0]

\* ------------------------------------------------- stream library calls
\* readable.pipe(dest): one more pipe to dest (duplicates are kept)
Pipe(p, d) == [p EXCEPT ![d] = @ + 1]

\* readable.unpipe(dest): removes one pipe to dest, if there is one
Unpipe(p, d) == [p EXCEPT ![d] = IF @ > 0 THEN @ - 1 ELSE 0]

\* the refs of the Microphone component and what they point to, as a record
Refs ==
  [micStreamRef |-> micStreamRef, audioStreamerRef |-> audioStreamerRef,
   mediaStreamRef |-> mediaStreamRef, mic |-> mic, media |-> media,
   pipes |-> pipes, gumPending |-> gumPending, ranFor |-> ranFor]

\* ------------------------------------------------ microphone.tsx effects
\* cleanup of the [recognizer, startRecognitionStream] effect, l.112-135
Cleanup(s) ==
  LET m == s.micStreamRef
      p1 == IF s.audioStreamerRef # 0
              THEN Unpipe(s.pipes[m], s.audioStreamerRef) ELSE s.pipes[m]
      p2 == Unpipe(p1, audioBucket)
      s1 == IF m # 0
              THEN [s EXCEPT !.pipes[m] = p2,
                             !.mic[m] = "destroyed"]
              ELSE s
  IN  IF s1.mediaStreamRef # 0
        THEN [s1 EXCEPT !.media[s1.mediaStreamRef] = "stopped"]
        ELSE s1

\* startRecognitionStream up to its first await or its end, l.55-101,
\* for the recognizer r of the render that created the callback
startRecognitionStream(s, r) ==
  IF r = 0 THEN s
  ELSE IF s.micStreamRef = 0
    THEN [s EXCEPT !.gumPending = @ \cup {r}]
    ELSE LET m == s.micStreamRef
             p1 == IF s.audioStreamerRef # 0
                     THEN Unpipe(s.pipes[m], s.audioStreamerRef) ELSE s.pipes[m]
         IN  [s EXCEPT !.pipes[m] = Pipe(p1, audioBucket),
                       !.audioStreamerRef = r,
                       !.ranFor = @ \cup {r}]

\* the [muted] effect, l.142-157, for the muted value mu of its render
MutedEffect(s, mu) ==
  LET m == s.micStreamRef
      a == s.audioStreamerRef
  IN  IF ~mu /\ m # 0 /\ a # 0
        THEN [s EXCEPT !.pipes[m] = Pipe(Unpipe(@, audioBucket), a)]
      ELSE IF mu /\ m # 0
        THEN [s EXCEPT !.pipes[m] =
                Pipe(IF a # 0 THEN Unpipe(@, a) ELSE @, audioBucket)]
      ELSE s

SetRefs(s) ==
  /\ micStreamRef' = s.micStreamRef
  /\ audioStreamerRef' = s.audioStreamerRef
  /\ mediaStreamRef' = s.mediaStreamRef
  /\ mic' = s.mic
  /\ media' = s.media
  /\ pipes' = s.pipes
  /\ gumPending' = s.gumPending
  /\ ranFor' = s.ranFor

NoPending == ~effRec /\ ~effLoading /\ ~effMuted

\* One flush of the pending passive effects of the Microphone component:
\* cleanup and body of the recognizer effect (l.103-136), the [loading]
\* effect (l.138-140), the [muted] effect (l.142-157); then the render that
\* their setMuted(true) / setError(null) calls cause.
FlushEffects ==
  /\ ~NoPending
  /\ LET s1 == IF effRec THEN startRecognitionStream(Cleanup(Refs), recognizer)
                         ELSE Refs
         s2 == IF effMuted THEN MutedEffect(s1, muted) ELSE s1
         setsMuted == (effRec /\ recognizer # 0) \/ effLoading
     IN  /\ SetRefs(s2)
         /\ muted' = IF setsMuted THEN TRUE ELSE muted
         /\ error' = IF effRec /\ recognizer # 0 THEN NoError ELSE error
         /\ effMuted' = (setsMuted /\ ~muted)
  /\ effRec' = FALSE
  /\ effLoading' = FALSE
  /\ UNCHANGED <<recVars, txVars, sumVars, lastFrame>>

\* ------------------------------------------------ microphone.tsx handlers
\* toggleMic with a Button that is disabled by !ready only
toggleMicWhileLoading ==
  /\ error = NoError /\ ready
  /\ NoPending
  /\ muted' = ~muted
  /\ effMuted' = TRUE
  /\ UNCHANGED <<error, effRec, effLoading, recVars, txVars, sumVars, refVars, lastFrame>>

\* toggleMic, l.159-161, reachable through the Button of l.176-184 only
\* (the Error button of l.163-174 has no handler)
toggleMic ==
  /\ error = NoError /\ ready /\ ~loading
  /\ NoPending
  /\ muted' = ~muted
  /\ effMuted' = TRUE
  /\ UNCHANGED <<error, effRec, effLoading, recVars, txVars, sumVars, refVars, lastFrame>>

\* getUserMedia resolves for the run of recognizer r and the run continues
\* to its end: l.63, l.73-78, l.93
GetUserMediaOk(r) ==
  /\ r \in gumPending
  /\ gumPending' = gumPending \ {r}
  /\ mediaStreamRef' = r
  /\ media' = [media EXCEPT ![r] = "live"]
  /\ micStreamRef' = r
  /\ mic' = [mic EXCEPT ![r] = "live"]
  /\ audioStreamerRef' = r
  /\ ranFor' = ranFor \cup {r}
  /\ UNCHANGED <<pipes, micVars, recVars, txVars, sumVars, lastFrame>>

\* getUserMedia rejects: outer catch, l.96-99
GetUserMediaRejected(r) ==
  /\ r \in gumPending
  /\ gumPending' = gumPending \ {r}
  /\ error' = ErrStart
  /\ UNCHANGED <<micStreamRef, audioStreamerRef, mediaStreamRef, mic, media,
                 pipes, ranFor, muted, effRec, effLoading, effMuted,
                 recVars, txVars, sumVars, lastFrame>>

\* new MicrophoneStream(...) throws after getUserMedia resolved: l.63, l.79-83
MicrophoneStreamThrows(r) ==
  /\ r \in gumPending
  /\ gumPending' = gumPending \ {r}
  /\ mediaStreamRef' = r
  /\ media' = [media EXCEPT ![r] = "live"]
  /\ error' = ErrAccess
  /\ UNCHANGED <<micStreamRef, audioStreamerRef, mic, pipes, ranFor, muted,
                 effRec, effLoading, effMuted, recVars, txVars, sumVars, lastFrame>>

\* setStream(...) throws on the new MicrophoneStream: l.63, l.73-83
SetStreamThrows(r) ==
  /\ r \in gumPending
  /\ gumPending' = gumPending \ {r}
  /\ mediaStreamRef' = r
  /\ media' = [media EXCEPT ![r] = "live"]
  /\ micStreamRef' = r
  /\ mic' = [mic EXCEPT ![r] = "unattached"]
  /\ error' = ErrAccess
  /\ UNCHANGED <<audioStreamerRef, pipes, ranFor, muted, effRec, effLoading,
                 effMuted, recVars, txVars, sumVars, lastFrame>>

\* The device delivers one frame through MicrophoneStream k: every piped
\* destination receives it; an AudioStreamer hands it to its recognizer.
Frame(k) ==
  /\ mic[k] = "live" /\ media[k] = "live"
  /\ \E d \in Dests : pipes[k][d] > 0
  /\ lastFrame' =
       [stream |-> k,
        dests |-> {d \in Dests : pipes[k][d] > 0},
        terminated |-> {d \in Ids : pipes[k][d] > 0 /\ modelState[d] = "terminated"},
        muted |-> muted]
  /\ UNCHANGED <<recVars, txVars, sumVars, refVars, micVars>>

\* ------------------------------------------------ recognizer.tsx: engine
Created == {j \in Ids : modelState[j] # "none"}

\* loadModel up to its await, l.93-99; the mount effect of l.121-125 is its
\* first call.  loadedModel is the value of the render that made the call.
loadModelStart ==
  /\ NoPending
  /\ Cardinality(Created) + pendingLoads < MaxModels
  /\ loading' = TRUE
  /\ modelState' = IF loadedModel # 0
                     THEN [modelState EXCEPT ![loadedModel] = "terminated"]
                     ELSE modelState
  /\ pendingLoads' = pendingLoads + 1
  /\ effLoading' = ~loading
  /\ UNCHANGED <<loadedModel, recognizer, ready, muted, error, effRec, effMuted,
                 txVars, sumVars, refVars, lastFrame>>

\* createModel resolves and loadModel runs to its end, l.99-117
loadModelResume ==
  /\ NoPending
  /\ pendingLoads > 0
  /\ LET j == Cardinality(Created) + 1
     IN  /\ modelState' = [modelState EXCEPT ![j] = "alive"]
         /\ loadedModel' = j
         /\ recognizer' = j
  /\ pendingLoads' = pendingLoads - 1
  /\ loading' = FALSE
  /\ ready' = TRUE
  /\ effRec' = TRUE
  /\ effLoading' = loading
  /\ UNCHANGED <<muted, error, effMuted, txVars, sumVars, refVars, lastFrame>>

\* createModel rejects: loadModel ends at l.99 with the rejection
loadModelRejected ==
  /\ pendingLoads > 0
  /\ pendingLoads' = pendingLoads - 1
  /\ UNCHANGED <<loadedModel, recognizer, loading, ready, modelState,
                 txVars, sumVars, refVars, micVars, lastFrame>>

\* ------------------------------------------------- strings and payloads
\* A string is the sequence of its characters.
Space == <<" ">>
IsSpace(c) == c = " "
IsUpper(c) == c \in {"A", "B", "C", "D", "E", "H"}
IsTerminal(c) == c \in {".", "?", "!"}
NonEmpty(x) == x # <<>>

\* Array.prototype.join
RECURSIVE Join(_, _)
Join(ss, sep) ==
  IF ss = <<>> THEN <<>>
  ELSE IF Len(ss) = 1 THEN ss[1]
  ELSE ss[1] \o sep \o Join(Tail(ss), sep)

\* String.prototype.trim
RECURSIVE TrimLeft(_)
TrimLeft(s) == IF s # <<>> /\ IsSpace(Head(s)) THEN TrimLeft(Tail(s)) ELSE s

RECURSIVE TrimRight(_)
TrimRight(s) ==
  IF s # <<>> /\ IsSpace(s[Len(s)]) THEN TrimRight(SubSeq(s, 1, Len(s) - 1)) ELSE s

Trim(s) == TrimRight(TrimLeft(s))

\* String.prototype.split(sep), cur being the piece read so far
RECURSIVE SplitFrom(_, _, _)
SplitFrom(s, sep, cur) ==
  IF s = <<>> THEN <<cur>>
  ELSE IF Head(s) = sep THEN <<cur>> \o SplitFrom(Tail(s), sep, <<>>)
  ELSE SplitFrom(Tail(s), sep, Append(cur, Head(s)))

Split(s, sep) == SplitFrom(s, sep, <<>>)

\* An entry of utterances is message.result of a 'result' event:
\*   kind "undefined" - no object; "noarray" - an object whose result is
\*   missing or not an array; "ok" - result is an array of word entries.
\* A word entry is null (ok = FALSE) or an object with a word string.
Utt(ws) == [kind |-> "ok", result |-> ws]
UttUndefined == [kind |-> "undefined", result |-> <<>>]
UttNoArray == [kind |-> "noarray", result |-> <<>>]
W(str) == [ok |-> TRUE, word |-> str]
NullWord == [ok |-> FALSE, word |-> <<>>]

\* --------------------------------------------- recognizer.tsx: transcript
\* word?.word || "", l.165
WordText(w) == IF w.ok THEN w.word ELSE <<>>

\* the per-utterance map callback, l.160-168
UttTextNoFilter(u) ==
  IF u.kind # "ok" THEN <<>>
  ELSE Join([i \in 1..Len(u.result) |-> WordText(u.result[i])], Space)

UttText(u) ==
  IF u.kind # "ok" THEN <<>>
  ELSE Join(SelectSeq([i \in 1..Len(u.result) |-> WordText(u.result[i])], NonEmpty),
            Space)

\* getFullTranscript, l.154-171
getFullTranscript(utts) ==
  IF Len(utts) = 0 THEN <<>>
  ELSE Join(SelectSeq([i \in 1..Len(utts) |-> UttText(utts[i])], NonEmpty), Space)

\* --------------------------------------------- recognizer.tsx: summarizer
MinSentenceLength == 5

\* text.replace(/([.?!])\s*(?=[A-Z])/g, "$1|") from position i on, l.191
RECURSIVE SkipSpaces(_, _)
SkipSpaces(s, i) == IF i <= Len(s) /\ IsSpace(s[i]) THEN SkipSpaces(s, i + 1) ELSE i

RECURSIVE MarkBoundaries(_, _)
MarkBoundaries(s, i) ==
  IF i > Len(s) THEN <<>>
  ELSE LET j == SkipSpaces(s, i + 1)
       IN  IF IsTerminal(s[i]) /\ j <= Len(s) /\ IsUpper(s[j])
             THEN <<s[i], "|">> \o MarkBoundaries(s, j)
             ELSE <<s[i]>> \o MarkBoundaries(s, i + 1)

LongEnough(x) == Len(x) > MinSentenceLength

\* getSentences, l.189-195
getSentences(text) ==
  LET parts == Split(MarkBoundaries(text, 1), "|")
  IN  SelectSeq([i \in 1..Len(parts) |-> Trim(parts[i])], LongEnough)

\* getImportantSentences, l.198-213
getImportantSentencesLowMid(sentences, count) ==
  IF Len(sentences) <= count THEN sentences
  ELSE <<sentences[1]>>
         \o (IF count >= 2 THEN <<sentences[((Len(sentences) - 1) \div 2) + 1]>> ELSE <<>>)
         \o (IF count >= 3 THEN <<sentences[Len(sentences)]>> ELSE <<>>)

getImportantSentences(sentences, count) ==
  IF Len(sentences) <= count THEN sentences
  ELSE <<sentences[1]>>
         \o (IF count >= 2 THEN <<sentences[(Len(sentences) \div 2) + 1]>> ELSE <<>>)
         \o (IF count >= 3 THEN <<sentences[Len(sentences)]>> ELSE <<>>)

\* Scores are in tenths.  A classifier call yields a raw score; ScoreFailed
\* stands for a rejected call and for a missing or zero score.
NeutralScore == 5
ScoreFailed == 0
RawScores == {ScoreFailed, 9}

\* score || confidence || 0.5, and the catch of l.264-266
EffectiveScore(raw) == IF raw = ScoreFailed THEN NeutralScore ELSE raw

RemoveAt(seq, i) == SubSeq(seq, 1, i - 1) \o SubSeq(seq, i + 1, Len(seq))

\* [...results].sort((a, b) => b.score - a.score), a stable sort, l.271
RECURSIVE SortByScoreDesc(_)
SortByScoreDesc(rs) ==
  IF rs = <<>> THEN <<>>
  ELSE LET i == CHOOSE i \in 1..Len(rs) :
                  /\ \A j \in 1..Len(rs) : rs[j].score <= rs[i].score
                  /\ \A j \in 1..(i - 1) : rs[j].score < rs[i].score
       IN  <<rs[i]>> \o SortByScoreDesc(RemoveAt(rs, i))

\* Array.prototype.indexOf (0-based, -1 when absent)
IndexOf(seq, x) ==
  IF \E i \in 1..Len(seq) : seq[i] = x
    THEN (CHOOSE i \in 1..Len(seq) : seq[i] = x /\ \A j \in 1..(i - 1) : seq[j] # x) - 1
    ELSE -1

\* topSentences.sort((a, b) => sentences.indexOf(a) - sentences.indexOf(b)), l.280-282
RECURSIVE SortByIndexOf(_, _)
SortByIndexOf(top, sentences) ==
  IF top = <<>> THEN <<>>
  ELSE LET i == CHOOSE i \in 1..Len(top) :
                  /\ \A j \in 1..Len(top) :
                       IndexOf(sentences, top[i]) <= IndexOf(sentences, top[j])
                  /\ \A j \in 1..(i - 1) :
                       IndexOf(sentences, top[i]) < IndexOf(sentences, top[j])
       IN  <<top[i]>> \o SortByIndexOf(RemoveAt(top, i), sentences)

\* the scored selection, l.270-282, for the raw scores of the sentences
ScoredSelection(sentences, raw) ==
  LET results == [i \in 1..Len(sentences) |->
                    [sentence |-> sentences[i], score |-> EffectiveScore(raw[i])]]
      sortedResults == SortByScoreDesc(results)
      topSentences == [i \in 1..3 |-> sortedResults[i].sentence]
      forced == IF \E i \in 1..3 : topSentences[i] = sentences[1]
                  THEN topSentences
                  ELSE [topSentences EXCEPT ![3] = sentences[1]]
  IN  SortByIndexOf(forced, sentences)

\* the fixed messages of generateSummary, l.229, l.237
MsgNoContent == <<"No transcript content to summarize.">>
MsgTooShort == <<"The transcript is too short to summarize effectively.">>

\* !transcript || !transcript.trim(), l.228
IsBlankNoTrim(t) == t = <<>>

IsBlank(t) == Trim(t) = <<>>

\* ------------------------------------------- recognizer.tsx: the handlers
MaxEvents == 3
MaxCalls == 2
MaxUtt == 2

CallIds == 1..MaxCalls
IdleCall == [pc |-> "idle", utts |-> <<>>, transcript |-> <<>>, sentences |-> <<>>]
NoCall == [path |-> "none", utts |-> <<>>, transcript |-> <<>>, sentences |-> <<>>,
           consulted |-> FALSE]

\* setUtterances((utt) => [...utt, result]), l.106
PrependResult(utt, result) == <<result>> \o utt

AppendResult(utt, result) == Append(utt, result)

NoEvent == [from |-> 0, raised |-> FALSE]

\* the 'result' handler of recognizer r, l.104-107, for message.result = u
ResultEvent(r, u) ==
  /\ r \in Created
  /\ Len(emitted) < MaxEvents
  /\ utterances' = AppendResult(utterances, u)
  /\ emitted' = Append(emitted, u)
  /\ lastEvent' = [from |-> r, raised |-> FALSE]
  /\ UNCHANGED <<partial, recVars, sumVars, refVars, micVars, lastFrame>>

\* A 'partialresult' message: with a result object whose partial is a text
\* or is missing, or without a result object.
PartialUndefined == <<"undefined">>
PMsg(p) == [hasResult |-> TRUE, partial |-> p]
PMsgNoResult == [hasResult |-> FALSE, partial |-> PartialUndefined]

\* the 'partialresult' handler of recognizer r, l.109-111, for the message
\* m: message.result.partial is a TypeError when message.result is
\* undefined, and setPartial is not reached
PartialEvent(r, m) ==
  /\ r \in Created
  /\ partial' = IF m.hasResult THEN m.partial ELSE partial
  /\ lastEvent' = [from |-> r, raised |-> ~m.hasResult]
  /\ UNCHANGED <<utterances, emitted, recVars, sumVars, refVars, micVars, lastFrame>>

\* the end of a generateSummary invocation: setSummary(text) and the
\* finally block, l.299-301
Finish(c, text, path, consulted, loc) ==
  /\ summary' = text
  /\ summarizing' = FALSE
  /\ calls' = [calls EXCEPT ![c] = IdleCall]
  /\ lastDone' = [path |-> path, utts |-> loc.utts, transcript |-> loc.transcript,
                  sentences |-> loc.sentences, consulted |-> consulted]

\* generateSummary from the Summarize button (l.318-328) up to its end or
\* to the await of loadTextClassifier, l.223-248 and l.128-136
generateSummary ==
  /\ Len(utterances) > 0
  /\ \E c \in CallIds : calls[c].pc = "idle"
  /\ LET c == CHOOSE c \in CallIds :
                /\ calls[c].pc = "idle"
                /\ \A d \in CallIds : calls[d].pc = "idle" => c <= d
         transcript == getFullTranscript(utterances)
         sentences == getSentences(transcript)
         loc == [pc |-> "idle", utts |-> utterances, transcript |-> transcript,
                 sentences |-> sentences]
     IN  IF IsBlank(transcript)
           THEN /\ Finish(c, MsgNoContent, "empty", FALSE, loc)
                /\ UNCHANGED <<textClassifier, llmLoading>>
         ELSE IF Len(sentences) = 0
           THEN /\ Finish(c, MsgTooShort, "tooShort", FALSE, loc)
                /\ UNCHANGED <<textClassifier, llmLoading>>
         ELSE IF Len(sentences) <= 3
           THEN /\ Finish(c, transcript, "short", FALSE, loc)
                /\ UNCHANGED <<textClassifier, llmLoading>>
         ELSE /\ summarizing' = TRUE
              /\ calls' = [calls EXCEPT ![c] =
                   [loc EXCEPT !.pc = IF textClassifier THEN "score" ELSE "load"]]
              /\ llmLoading' = IF textClassifier THEN llmLoading ELSE TRUE
              /\ UNCHANGED <<summary, textClassifier, lastDone>>
  /\ UNCHANGED <<recVars, txVars, refVars, micVars, lastFrame>>

\* pipeline(...) resolves in loadTextClassifier, l.136-144; generateSummary
\* goes on to the classifier calls of l.252-268
ClassifierLoaded(c) ==
  /\ calls[c].pc = "load"
  /\ textClassifier' = TRUE
  /\ llmLoading' = FALSE
  /\ calls' = [calls EXCEPT ![c].pc = "score"]
  /\ UNCHANGED <<summary, summarizing, lastDone, recVars, txVars, refVars,
                 micVars, lastFrame>>

\* ClassifierLoadFailed with the rejection of pipeline(...) not caught in
\* loadTextClassifier: generateSummary ends in its outer catch
ClassifierLoadFailedUncaught(c) ==
  /\ calls[c].pc = "load"
  /\ llmLoading' = TRUE
  /\ Finish(c, <<"An error occurred while generating the summary.">>,
            "error", TRUE, calls[c])
  /\ UNCHANGED <<textClassifier, recVars, txVars, refVars, micVars, lastFrame>>

\* pipeline(...) rejects: loadTextClassifier returns null, l.145-150, and
\* generateSummary takes the fallback of l.285-289
ClassifierLoadFailed(c) ==
  /\ calls[c].pc = "load"
  /\ llmLoading' = FALSE
  /\ Finish(c, Join(getImportantSentences(calls[c].sentences, 3), Space),
            "fallback", TRUE, calls[c])
  /\ UNCHANGED <<textClassifier, recVars, txVars, refVars, micVars, lastFrame>>

\* every classifier call of l.252-268 has settled, sentence i with raw[i];
\* selection and setSummary, l.270-284
Scored(c) ==
  /\ calls[c].pc = "score"
  /\ \E raw \in [1..Len(calls[c].sentences) -> RawScores] :
       Finish(c, Join(ScoredSelection(calls[c].sentences, raw), Space),
              "scored", TRUE, calls[c])
  /\ UNCHANGED <<textClassifier, llmLoading, recVars, txVars, refVars, micVars,
                 lastFrame>>

\* ---------------------------------------------------------- specification
Init ==
  /\ loadedModel = 0 /\ recognizer = 0
  /\ loading = FALSE /\ ready = FALSE
  /\ modelState = [j \in Ids |-> "none"]
  /\ pendingLoads = 0
  /\ utterances = <<>> /\ partial = <<>> /\ emitted = <<>>
  /\ lastEvent = NoEvent
  /\ summary = <<>> /\ summarizing = FALSE
  /\ textClassifier = FALSE /\ llmLoading = FALSE
  /\ calls = [c \in CallIds |-> IdleCall]
  /\ lastDone = NoCall
  /\ muted = TRUE /\ error = NoError
  /\ micStreamRef = 0 /\ audioStreamerRef = 0 /\ mediaStreamRef = 0
  /\ mic = [j \in Ids |-> "none"]
  /\ media = [j \in Ids |-> "none"]
  /\ pipes = [j \in Ids |-> NoPipes]
  /\ gumPending = {} /\ ranFor = {}
  /\ effRec = FALSE /\ effLoading = FALSE /\ effMuted = FALSE
  /\ lastFrame = NoFrame

vars == <<recVars, txVars, sumVars, refVars, micVars, lastFrame>>

Next ==
  \/ loadModelStart
  \/ loadModelResume
  \/ loadModelRejected
  \/ FlushEffects
  \/ toggleMic
  \/ \E r \in Ids : GetUserMediaOk(r)
  \/ \E r \in Ids : GetUserMediaRejected(r)
  \/ \E r \in Ids : MicrophoneStreamThrows(r)
  \/ \E r \in Ids : SetStreamThrows(r)
  \/ \E k \in Ids : Frame(k)

Spec == Init /\ [][Next]_vars

\* --------------------------- the transcript store under the shipped caller
\* The payloads (message.result) of the 'result' events and the partial texts
Payloads == {UttUndefined, Utt(<<>>), Utt(<<W(<<"o", "k">>)>>)}
Partials == {<<>>, <<"o", "k">>}
PartialMessages == {PMsg(p) : p \in Partials \cup {PartialUndefined}} \cup {PMsgNoResult}

NextT ==
  \/ (Created = {} /\ pendingLoads = 0 /\ loadModelStart)
  \/ loadModelResume
  \/ FlushEffects
  \/ toggleMic
  \/ \E r \in Ids : GetUserMediaOk(r)
  \/ \E k \in Ids : Frame(k)
  \/ \E r \in Ids, u \in Payloads : ResultEvent(r, u)
  \/ \E r \in Ids, m \in PartialMessages : PartialEvent(r, m)
  \/ generateSummary

SpecT == Init /\ [][NextT]_vars

\* ------------------------------------------ the summarizer on its inputs
wA == <<"A", "a", "a", "a", "a", ".">>
wB == <<"B", "b", "b", "b", "b", "!">>
wC == <<"C", "c", "c", "c", "c", "?">>
wD == <<"D", "d", "d", "d", "d", ".">>
wHi == <<"H", "i", ".">>

UttPool ==
  { UttUndefined, UttNoArray,
    Utt(<<W(Space)>>),
    Utt(<<NullWord, W(<<>>), W(wB)>>),
    Utt(<<W(wHi), W(<<>>), W(wA)>>),
    Utt(<<W(wA), W(wB)>>),
    Utt(<<W(wA), W(wC)>>),
    Utt(<<W(wC), W(wD)>>) }

UttInputs == UNION {[1..n -> UttPool] : n \in 0..MaxUtt}

\* the state with the first model loaded and any transcript of UttInputs
InitS ==
  /\ loadedModel = 1 /\ recognizer = 1
  /\ loading = FALSE /\ ready = TRUE
  /\ modelState = [j \in Ids |-> IF j = 1 THEN "alive" ELSE "none"]
  /\ pendingLoads = 0
  /\ utterances \in UttInputs /\ emitted = utterances /\ partial = <<>>
  /\ lastEvent = NoEvent
  /\ summary = <<>> /\ summarizing = FALSE
  /\ textClassifier = FALSE /\ llmLoading = FALSE
  /\ calls = [c \in CallIds |-> IdleCall]
  /\ lastDone = NoCall
  /\ muted = TRUE /\ error = NoError
  /\ micStreamRef = 0 /\ audioStreamerRef = 0 /\ mediaStreamRef = 0
  /\ mic = [j \in Ids |-> "none"]
  /\ media = [j \in Ids |-> "none"]
  /\ pipes = [j \in Ids |-> NoPipes]
  /\ gumPending = {1} /\ ranFor = {}
  /\ effRec = FALSE /\ effLoading = FALSE /\ effMuted = FALSE
  /\ lastFrame = NoFrame

NextS ==
  \/ generateSummary
  \/ \E c \in CallIds : ClassifierLoaded(c)
  \/ \E c \in CallIds : ClassifierLoadFailed(c)
  \/ \E c \in CallIds : Scored(c)

SpecS == InitS /\ [][NextS]_vars

\* ------------------------- summary requests while the transcript grows
wE == <<"E", "e", "e", "e", ".">>

\* message.result of the 'result' events
GrowPayloads ==
  { Utt(<<W(wE)>>),
    Utt(<<W(wA), W(wB)>>),
    Utt(<<W(wC), W(wD)>>) }

\* the state with the first model loaded and no result yet
InitG ==
  /\ loadedModel = 1 /\ recognizer = 1
  /\ loading = FALSE /\ ready = TRUE
  /\ modelState = [j \in Ids |-> IF j = 1 THEN "alive" ELSE "none"]
  /\ pendingLoads = 0
  /\ utterances = <<>> /\ emitted = <<>> /\ partial = <<>>
  /\ lastEvent = NoEvent
  /\ summary = <<>> /\ summarizing = FALSE
  /\ textClassifier = FALSE /\ llmLoading = FALSE
  /\ calls = [c \in CallIds |-> IdleCall]
  /\ lastDone = NoCall
  /\ muted = TRUE /\ error = NoError
  /\ micStreamRef = 0 /\ audioStreamerRef = 0 /\ mediaStreamRef = 0
  /\ mic = [j \in Ids |-> "none"]
  /\ media = [j \in Ids |-> "none"]
  /\ pipes = [j \in Ids |-> NoPipes]
  /\ gumPending = {1} /\ ranFor = {}
  /\ effRec = FALSE /\ effLoading = FALSE /\ effMuted = FALSE
  /\ lastFrame = NoFrame

NextG ==
  \/ \E r \in Ids, u \in GrowPayloads : ResultEvent(r, u)
  \/ generateSummary
  \/ \E c \in CallIds : ClassifierLoaded(c)
  \/ \E c \in CallIds : ClassifierLoadFailed(c)
  \/ \E c \in CallIds : Scored(c)

SpecG == InitG /\ [][NextG]_vars

\* ------------------------------- the transcript store across engine swaps
NextE ==
  \/ loadModelStart
  \/ loadModelResume
  \/ FlushEffects
  \/ \E r \in Ids, u \in Payloads : ResultEvent(r, u)
  \/ \E r \in Ids, m \in PartialMessages : PartialEvent(r, m)

SpecE == Init /\ [][NextE]_vars

\* ------------------------------------------------------------ properties
Alive == {j \in Ids : modelState[j] = "alive"}

\* C1: whenever the microphone stream exists, is not destroyed and no effect
\* is pending, a muted stream is piped to audioBucket and to no AudioStreamer,
\* and an unmuted stream is piped to the current AudioStreamer and not to
\* audioBucket.
C1_FrameRoutingAgreesWithMuted ==
  (micStreamRef # 0 /\ mic[micStreamRef] # "destroyed" /\ NoPending) =>
    LET p == pipes[micStreamRef]
    IN  IF muted
          THEN p[audioBucket] > 0 /\ \A j \in Ids : p[j] = 0
          ELSE /\ audioStreamerRef # 0
               /\ p[audioStreamerRef] > 0
               /\ p[audioBucket] = 0
               /\ \A j \in Ids \ {audioStreamerRef} : p[j] = 0

\* C2: no frame is delivered to an AudioStreamer whose recognizer belongs to
\* a model that was already terminated when the frame was delivered.
C2_NoFrameToTerminatedEngine ==
  lastFrame.terminated = {}

\* C3: no state holds two created, non-terminated models.
C3_AtMostOneEngineAlive ==
  Cardinality(Alive) <= 1

\* C4: once startRecognitionStream has run to its end for the current
\* recognizer, audioStreamerRef is the streamer built on it and the microphone
\* stream is piped to no streamer built on an earlier recognizer.
C4_NoStaleSession ==
  (recognizer # 0 /\ recognizer \in ranFor) =>
    /\ audioStreamerRef = recognizer
    /\ micStreamRef # 0 =>
         \A j \in Ids \ {recognizer} : pipes[micStreamRef][j] = 0

\* the words of the well-formed results, in arrival order
RECURSIVE AllWords(_)
AllWords(utts) ==
  IF utts = <<>> THEN <<>>
  ELSE (IF Head(utts).kind = "ok"
          THEN [i \in 1..Len(Head(utts).result) |-> WordText(Head(utts).result[i])]
          ELSE <<>>)
       \o AllWords(Tail(utts))

SpaceJoinedWords(utts) == Join(SelectSeq(AllWords(utts), NonEmpty), Space)

InsertAt(seq, i, x) == SubSeq(seq, 1, i) \o <<x>> \o SubSeq(seq, i + 1, Len(seq))

NoWords == {UttUndefined, UttNoArray, Utt(<<>>), Utt(<<NullWord, W(<<>>)>>)}

\* C5: the transcript a summary request reads is the single-space join, in
\* arrival order, of the non-empty words of the well-formed results, and an
\* entry without words inserted anywhere leaves getFullTranscript unchanged.
C5_FullTranscriptIsJoinOfWords ==
  lastDone.path # "none" =>
    /\ lastDone.transcript = SpaceJoinedWords(lastDone.utts)
    /\ \A i \in 0..Len(lastDone.utts) : \A x \in NoWords :
         getFullTranscript(InsertAt(lastDone.utts, i, x)) = lastDone.transcript

C5_Witness ==
  /\ lastDone.path # "none"
  /\ Len(lastDone.utts) = 2
  /\ lastDone.utts[1].kind = "ok" /\ lastDone.utts[2].kind = "ok"
  /\ \E i \in 1..Len(lastDone.utts[1].result) :
       WordText(lastDone.utts[1].result[i]) = <<>>
  /\ Len(lastDone.transcript) > 13

\* C6: utterances always equals the sequence of emitted results, and a step
\* leaves it unchanged or appends exactly the result just emitted.
C6_AppendOnlyInEmissionOrder ==
  /\ [](utterances = emitted)
  /\ [][ \/ utterances' = utterances
         \/ /\ emitted' # emitted
            /\ utterances' = Append(utterances, emitted'[Len(emitted')]) ]_vars

C6_Witness ==
  /\ Len(utterances) = 3
  /\ utterances[1] = utterances[3] /\ utterances[1] # utterances[2]
  /\ \E i \in 1..3 : utterances[i] = Utt(<<>>)
  /\ partial # <<>>
  /\ ~muted /\ mic[1] = "live"
  /\ lastDone.path # "none"

\* C7: a summary request that segments into 1..3 sentences sets the summary
\* to those sentences joined by single spaces and does not consult the
\* classifier.
C7_ShortSummaryIsSentences ==
  (lastDone.path # "none" /\ Len(lastDone.sentences) \in 1..3) =>
    /\ summary = Join(lastDone.sentences, Space)
    /\ ~lastDone.consulted

\* C8: a request that ends on the fallback path has n > 3 sentences and sets
\* the summary to sentences[0], sentences[floor(n/2)], sentences[n-1], joined
\* by single spaces, the three indices being pairwise distinct.
C8_FallbackFirstMiddleLast ==
  lastDone.path = "fallback" =>
    LET s == lastDone.sentences
        n == Len(s)
        mid == n \div 2
    IN  /\ n > 3
        /\ 0 # mid /\ mid # n - 1 /\ 0 # n - 1
        /\ summary = Join(<<s[1], s[mid + 1], s[n]>>, Space)

C8_Witness ==
  /\ lastDone.path = "fallback"
  /\ Len(lastDone.sentences) = 4
  /\ lastDone.sentences[2] # lastDone.sentences[3]

\* the sentences at the positions of S, in increasing order of position
RECURSIVE AtPositions(_, _)
AtPositions(s, S) ==
  IF S = {} THEN <<>>
  ELSE LET m == CHOOSE m \in S : \A k \in S : m <= k
       IN  <<s[m]>> \o AtPositions(s, S \ {m})

\* C9: a request that ends on the scored path sets the summary to sentences
\* taken at increasing positions of the sentence list, the first sentence
\* among them.
C9_ScoredKeepsFirstAndOrder ==
  lastDone.path = "scored" =>
    LET s == lastDone.sentences
    IN  \E S \in SUBSET (1..Len(s)) :
          /\ \E k \in S : s[k] = s[1]
          /\ summary = Join(AtPositions(s, S), Space)

\* C10: a request made on a transcript without content sets the summary to
\* the fixed message, does not consult the classifier and leaves
\* summarizing = false.
C10_NoContentMessage ==
  [][ (lastDone' # lastDone /\ Trim(SpaceJoinedWords(lastDone'.utts)) = <<>>) =>
        /\ summary' = MsgNoContent
        /\ ~lastDone'.consulted
        /\ ~summarizing' ]_vars

C10_Witness ==
  /\ lastDone.path = "empty"
  /\ Len(lastDone.utts) = 2
  /\ lastDone.utts[1] = Utt(<<W(Space)>>)
  /\ lastDone.utts[2].kind # "ok"
  /\ summary = MsgNoContent

\* C11: an invocation whose classifier load fails ends with the summary set
\* to the non-empty join of sentences[0], sentences[floor(n/2)] and
\* sentences[n-1] of its n > 3 sentences, with summarizing and llmLoading
\* false and textClassifier as it was; and every request issued while no
\* classifier is held on a transcript of more than 3 sentences waits on a
\* new load.
C11_LoadFailureFallsBack ==
  [][ \A c \in CallIds :
        /\ (calls[c].pc = "load" /\ calls'[c].pc = "idle") =>
             LET s == calls[c].sentences
                 n == Len(s)
             IN  /\ n > 3
                 /\ summary' = Join(<<s[1], s[(n \div 2) + 1], s[n]>>, Space)
                 /\ summary' # <<>>
                 /\ ~summarizing' /\ ~llmLoading'
                 /\ textClassifier' = textClassifier
        /\ (calls[c].pc = "idle" /\ calls'[c].pc # "idle" /\ ~textClassifier) =>
             /\ calls'[c].pc = "load"
             /\ Len(calls'[c].sentences) > 3 ]_vars

C11_Witness ==
  /\ lastDone.path = "fallback"
  /\ summary # <<>>
  /\ ~textClassifier
  /\ \A c \in CallIds : calls[c].pc = "load"

\* C12: no invocation of the 'result' or the 'partialresult' handler raises,
\* whatever the shape of its message.
C12_HandlersNeverRaise ==
  ~lastEvent.raised

\* C13: in every state where error is set, loading is true or ready is
\* false, toggleMic is not enabled; error goes back to null only in the flush
\* that runs startRecognitionStream again for a recognizer; and loading goes
\* back to false only when a pending createModel resolves.
C13_ToggleDisabledWithoutCapture ==
  /\ []((error # NoError \/ loading \/ ~ready) => ~ENABLED toggleMic)
  /\ [][ /\ (error # NoError /\ error' = NoError) => (effRec /\ recognizer # 0)
         /\ (loading /\ ~loading') => pendingLoads > 0 ]_vars

C13_Witness ==
  /\ error # NoError
  /\ loading /\ pendingLoads = 0
  /\ ready /\ NoPending

\* C14: once the recognizer effect has run to its end for the current
\* recognizer, the microphone stream held in micStreamRef is not destroyed
\* and the tracks of the MediaStream held in mediaStreamRef are not stopped.
C14_SwapKeepsCaptureAlive ==
  (recognizer # 0 /\ recognizer \in ranFor /\ NoPending /\ micStreamRef # 0) =>
    /\ mic[micStreamRef] = "live"
    /\ mediaStreamRef # 0 /\ media[mediaStreamRef] = "live"

\* C15: in the state right after a 'result' event is handled, partial holds
\* no text.
C15_PartialClearedOnResult ==
  [][ emitted' # emitted => partial' \in {<<>>, PartialUndefined} ]_vars

\* C16: a run of startRecognitionStream that ends without reaching l.93
\* leaves an error set, no live track on the MediaStream it acquired, and
\* neither mediaStreamRef nor micStreamRef holding what it created.
C16_FailureReleasesDevice ==
  [][ \A r \in Ids :
        (r \in gumPending /\ r \notin gumPending' /\ ranFor' = ranFor) =>
          /\ error' # NoError
          /\ media'[r] # "live"
          /\ mediaStreamRef' # r /\ micStreamRef' # r ]_vars

\* position j ranks before position i: a higher score, or the same score at
\* an earlier position
RanksBefore(raw, j, i) ==
  \/ EffectiveScore(raw[j]) > EffectiveScore(raw[i])
  \/ EffectiveScore(raw[j]) = EffectiveScore(raw[i]) /\ j < i

\* the k highest-ranked positions of 1..n
Highest(raw, n, k) ==
  {i \in 1..n : Cardinality({j \in 1..n : RanksBefore(raw, j, i)}) < k}

\* the three highest-ranked positions when position 1 is among them, else
\* the two highest-ranked positions and position 1
SelectedPositions(raw, n) ==
  IF 1 \in Highest(raw, n, 3) THEN Highest(raw, n, 3)
                              ELSE Highest(raw, n, 2) \cup {1}

Orderings(S) == {o \in S \X S \X S : {o[1], o[2], o[3]} = S}

\* C17: for every score assignment that yields the summary a scored request
\* sets, the summary is made of the sentences at the three positions of
\* SelectedPositions, three distinct positions of the sentence list.
C17_ScoredSelectsThreePositions ==
  [][ \A c \in CallIds :
        (calls[c].pc = "score" /\ calls'[c].pc = "idle") =>
          LET s == calls[c].sentences
              n == Len(s)
          IN  \A raw \in [1..n -> RawScores] :
                summary' = Join(ScoredSelection(s, raw), Space) =>
                  /\ Cardinality(SelectedPositions(raw, n)) = 3
                  /\ \E o \in Orderings(SelectedPositions(raw, n)) :
                       summary' = Join(<<s[o[1]], s[o[2]], s[o[3]]>>, Space) ]_vars

\* C18: an invocation that was issued on a shorter transcript than the
\* invocation that completed last, hence before it, leaves the summary as
\* that later invocation set it.
C18_StaleRequestKeepsSummary ==
  [][ \A c \in CallIds :
        ( /\ calls[c].pc # "idle" /\ calls'[c].pc = "idle"
          /\ lastDone.path # "none"
          /\ Len(calls[c].utts) < Len(lastDone.utts) ) =>
          summary' = summary ]_vars

\* the trimmed fragments of a transcript, before any is discarded
Fragments(text) ==
  LET parts == Split(MarkBoundaries(text, 1), "|")
  IN  [i \in 1..Len(parts) |-> Trim(parts[i])]

NotShorterThanMinimum(x) == Len(x) >= MinSentenceLength

\* C20: the sentences of a summary request are the trimmed fragments of its
\* transcript of length at least MinSentenceLength, in their order, and the
\* request reports the 'too short' message exactly when its transcript has
\* content and none of its fragments has that length.
C20_KeepsFragmentsOfMinimumLength ==
  lastDone.path # "none" =>
    LET kept == SelectSeq(Fragments(lastDone.transcript), NotShorterThanMinimum)
    IN  /\ lastDone.sentences = kept
        /\ (lastDone.path = "tooShort") <=>
             (~IsBlank(lastDone.transcript) /\ kept = <<>>)
        /\ lastDone.path = "tooShort" => summary = MsgTooShort

\* C19: a step that changes utterances or partial is the run of a handler
\* for an event of the current recognizer.
C19_OnlyCurrentRecognizerMutates ==
  [][ (utterances' # utterances \/ partial' # partial) =>
        lastEvent'.from = recognizer ]_vars

====
